---- MODULE Spec2Model ----
(***************************************************************************)
(* Model of pySwitchbot (src/switchbot/__init__.py): the command keys and  *)
(* their password wrapping, the connect / subscribe / write / read /       *)
(* disconnect transaction of SwitchbotDevice._sendcommand, and the facade  *)
(* operations of Switchbot and SwitchbotCurtain built on it.               *)
(*                                                                         *)
(* Text (str) values are sequences of one-character strings, bytes values  *)
(* are sequences of integers in 0..255, 32-bit words are sequences of 32   *)
(* bits with the least significant bit first.                              *)
(***************************************************************************)
EXTENDS Integers, Sequences, FiniteSets, TLC

(***************************************************************************)
(* Bounds of the model.                                                    *)
(***************************************************************************)
\* retry_count given to a facade's constructor ranges over 0..MaxRetry
MaxRetry == 2
\* set_position arguments range over -MaxOver .. 100 + MaxOver (sampled)
MaxOver == 1

(***************************************************************************)
(* Program constants.                                                      *)
(***************************************************************************)
DEFAULT_RETRY_COUNT == 3

DEVICE_GET_BASIC_SETTINGS_KEY == <<"5", "7", "0", "2">>
DEVICE_SET_MODE_KEY == <<"5", "7", "0", "3">>
DEVICE_SET_EXTENDED_KEY == <<"5", "7", "0", "f">>
PRESS_KEY == <<"5", "7", "0", "1", "0", "0">>
ON_KEY == <<"5", "7", "0", "1", "0", "1">>
OFF_KEY == <<"5", "7", "0", "1", "0", "2">>
OPEN_KEY == <<"5", "7", "0", "f", "4", "5", "0", "1", "0", "5", "f", "f", "0", "0">>
CLOSE_KEY == <<"5", "7", "0", "f", "4", "5", "0", "1", "0", "5", "f", "f", "6", "4">>
POSITION_KEY == <<"5", "7", "0", "F", "4", "5", "0", "1", "0", "5", "f", "f">>
STOP_KEY == <<"5", "7", "0", "F", "4", "5", "0", "1", "0", "0", "f", "f">>
CURTAIN_EXT_SUM_KEY == <<"5", "7", "0", "f", "4", "6", "0", "4", "0", "1">>
CURTAIN_EXT_ADV_KEY == <<"5", "7", "0", "f", "4", "6", "0", "4", "0", "2">>
KEY_PASSWORD_PREFIX == <<"5", "7", "1">>

(***************************************************************************)
(* Number formatting, as Python's % and format() do it.                    *)
(***************************************************************************)
LowerHexDigits == <<"0", "1", "2", "3", "4", "5", "6", "7", "8", "9", "a", "b", "c", "d", "e", "f">>
UpperHexDigits == <<"0", "1", "2", "3", "4", "5", "6", "7", "8", "9", "A", "B", "C", "D", "E", "F">>

RECURSIVE HexOfNat(_, _)
\* the hexadecimal digits of n >= 0 without padding ("0" for 0)
HexOfNat(n, digits) ==
    IF n < 16 THEN <<digits[n + 1]>>
    ELSE Append(HexOfNat(n \div 16, digits), digits[(n % 16) + 1])

RECURSIVE ZeroPad(_, _)
\* s padded on the left with "0" up to width w
ZeroPad(s, w) == IF Len(s) >= w THEN s ELSE ZeroPad(<<"0">> \o s, w)

\* "%0.2X" % n : precision 2, upper case; the sign goes before the digits
FormatPrec2X(n) ==
    IF n < 0 THEN <<"-">> \o ZeroPad(HexOfNat(-n, UpperHexDigits), 2)
    ELSE ZeroPad(HexOfNat(n, UpperHexDigits), 2)

\* f"{n:0{2}x}" : minimum width 2 (sign included), zero padded, lower case
FormatWidth2x(n) ==
    IF n < 0 THEN <<"-">> \o ZeroPad(HexOfNat(-n, LowerHexDigits), 1)
    ELSE ZeroPad(HexOfNat(n, LowerHexDigits), 2)

\* format(b, "b") of a bool: "1" or "0"
FormatBoolB(b) == IF b THEN <<"1">> ELSE <<"0">>

IsHexDigit(c) ==
    \E i \in 1..16 : c = LowerHexDigits[i] \/ c = UpperHexDigits[i]

HexValue(c) ==
    CHOOSE v \in 0..15 : c = LowerHexDigits[v + 1] \/ c = UpperHexDigits[v + 1]

\* bytearray.fromhex accepts s: an even number of hex digits
FromHexAccepts(s) ==
    /\ Len(s) % 2 = 0
    /\ \A i \in 1..Len(s) : IsHexDigit(s[i])

\* bytearray.fromhex(s) for an accepted s
FromHex(s) ==
    [i \in 1..(Len(s) \div 2) |-> 16 * HexValue(s[2 * i - 1]) + HexValue(s[2 * i])]

(***************************************************************************)
(* binascii.crc32 on 32-bit words (bit 1 is the least significant).        *)
(***************************************************************************)
Pow2(k) == CASE k = 0 -> 1 [] k = 1 -> 2 [] k = 2 -> 4 [] k = 3 -> 8
             [] k = 4 -> 16 [] k = 5 -> 32 [] k = 6 -> 64 [] k = 7 -> 128

WordOfByte(b) == [i \in 1..32 |-> IF i <= 8 THEN (b \div Pow2(i - 1)) % 2 ELSE 0]

\* the word whose hexadecimal digits (most significant first) are h
WordOfHex(h) ==
    [i \in 1..32 |-> (HexValue(h[8 - ((i - 1) \div 4)]) \div Pow2((i - 1) % 4)) % 2]

WordXor(a, b) == [i \in 1..32 |-> (a[i] + b[i]) % 2]

WordShiftRight(a) == [i \in 1..32 |-> IF i < 32 THEN a[i + 1] ELSE 0]

CrcPolynomial == WordOfHex(<<"e", "d", "b", "8", "8", "3", "2", "0">>)

AllOnes == [i \in 1..32 |-> 1]

RECURSIVE CrcBits(_, _)
\* n steps of the reflected CRC shift register
CrcBits(c, n) ==
    IF n = 0 THEN c
    ELSE CrcBits(IF c[1] = 1 THEN WordXor(WordShiftRight(c), CrcPolynomial)
                 ELSE WordShiftRight(c), n - 1)

RECURSIVE CrcBytes(_, _)
CrcBytes(c, data) ==
    IF data = <<>> THEN c
    ELSE CrcBytes(CrcBits(WordXor(c, WordOfByte(Head(data))), 8), Tail(data))

crc32(data) == WordXor(CrcBytes(AllOnes, data), AllOnes)

\* hexadecimal digit j (1 = most significant) of a word, as a number
NibbleOfWord(w, j) ==
    LET lo == 4 * (8 - j) + 1
    IN  w[lo] + 2 * w[lo + 1] + 4 * w[lo + 2] + 8 * w[lo + 3]

WordIsZeroAbove(w, j) == \A k \in 1..(j - 1) : NibbleOfWord(w, k) = 0

\* "%x" % w : lower-case hexadecimal digits with no padding
FormatWordx(w) ==
    LET first == IF \A k \in 1..8 : NibbleOfWord(w, k) = 0 THEN 8
                 ELSE CHOOSE j \in 1..8 : NibbleOfWord(w, j) # 0 /\ WordIsZeroAbove(w, j)
    IN  [i \in 1..(9 - first) |-> LowerHexDigits[NibbleOfWord(w, first + i - 1) + 1]]

(***************************************************************************)
(* Inputs.                                                                 *)
(***************************************************************************)
Facades == {1, 2}

Classes == {"Switchbot", "SwitchbotCurtain"}

\* the password argument of the constructor: None, "", "a", "c"
NoPassword == [given |-> FALSE, text |-> <<>>]
PasswordArgs ==
    {NoPassword} \cup {[given |-> TRUE, text |-> t] : t \in {<<>>, <<97>>, <<99>>}}

\* what the device answers on the notification characteristic
Responses ==
    {<<>>, <<0>>, <<1>>, <<5>>, <<7>>, <<9>>, <<1, 0, 0>>, <<1, 16, 1>>}

\* errors a call into the BLE stack ends with
StackErrors == {"BleakError", "TimeoutError"}
StackOutcomes == {"ok"} \cup StackErrors

\* What the BLE stack does during one attempt: the first call of connect,
\* subscribe, write, read that fails (fault) and how (err), the bytes a read
\* returns (resp), and how disconnect ends (disconnect).
StubBehaviours ==
    [fault : {"none"}, err : {"ok"}, resp : Responses, disconnect : StackOutcomes]
    \cup
    [fault : {"connect", "subscribe", "write", "read"}, err : StackErrors,
     resp : {<<>>}, disconnect : StackOutcomes]

StackCall(b, what) == IF b.fault = what THEN b.err ELSE "ok"

Positions == ((0 - MaxOver)..1) \cup {50} \cup (99..(100 + MaxOver))
Strengths == {15, 100, 256}
Durations == {0, 5, 255, 256}

(***************************************************************************)
(* State.                                                                  *)
(***************************************************************************)
VARIABLES
    cls,              \* class of each facade object
    retry_count,      \* self._retry_count
    reverse,          \* SwitchbotCurtain._reverse
    password_encoded, \* self._password_encoded
    pc,               \* where the coroutine of the running operation stands
    op,               \* the facade operation that is running
    key,              \* _sendcommand's key
    command,          \* _sendcommand's command
    retry,            \* _sendcommand's retry
    notify_msg,       \* _sendcommand's notify_msg
    exc,              \* the exception travelling out of the try block
    plan,             \* the BLE stack's behaviour in the attempts begun
    conn_calls,       \* calls of BleakClient.connect in this operation
    disc_calls,       \* calls of BleakClient.disconnect in this operation
    writes,           \* bytes handed to BleakClient.write_gatt_char
    send_result,      \* what _sendcommand returned to the operation
    outcome,          \* what the operation returned or raised
    arg,              \* the integer argument of the running operation
    wrapped,          \* key and result of the last _commandkey call
    scan_pc,          \* where GetSwitchbotDevices.discover stands
    connect_lock,     \* CONNECT_LOCK is held
    inverse_mode,     \* Switchbot._inverse
    steps,            \* the calls the try block of _sendcommand has awaited
    switchbot_device_data, \* self._switchbot_device_data of each facade
    acc,              \* what the last cached accessor returned or raised
    air,              \* the advertisements on the air during update()
    sd_data,          \* GetSwitchbotDevices._data
    all_services_data, \* GetSwitchbotDevices._all_services_data
    cb_error,         \* the error that left the last detection_callback, and
                      \* the expression of detection_callback that raised it
    lookup,           \* the last query of the scanner object and its result
    decoded,          \* the last direct call of a decoder and its result
    ext_info_sum      \* SwitchbotCurtain.ext_info_sum

vars == <<cls, retry_count, reverse, password_encoded, pc, op, key, command,
          retry, notify_msg, exc, plan, conn_calls, disc_calls, writes,
          send_result, outcome, arg, wrapped, scan_pc, connect_lock,
          inverse_mode, steps, switchbot_device_data, acc, air, sd_data,
          all_services_data, cb_error, lookup, decoded, ext_info_sum>>

objectVars == <<cls, retry_count, reverse, password_encoded, inverse_mode>>
frameVars == <<pc, op, key, command, retry, notify_msg, exc>>
stackVars == <<plan, conn_calls, disc_calls, writes, steps>>
cacheVars == <<switchbot_device_data, acc, air>>
scannerVars == <<sd_data, all_services_data, cb_error, lookup>>
restVars == <<cacheVars, scannerVars, decoded, ext_info_sum>>

\* Python values of more than one type are tagged
StrValue(s) == [tag |-> "str", val |-> s]
BytesValue(b) == [tag |-> "bytes", val |-> b]
\* a coroutine object that was created and not awaited
CoroutineValue(k) == [tag |-> "coroutine", val |-> k]

\* nothing was returned (yet)
NoValue == [tag |-> "none", val |-> <<>>]

NoOutcome == [kind |-> "none", val |-> "none"]
NotWrapped == [called |-> FALSE, out |-> <<>>]

\* Python values an accessor returns, and the errors it raises
PyNone == [t |-> "None", v |-> 0]
PyInt(n) == [t |-> "int", v |-> n]
PyBool(b) == [t |-> "bool", v |-> IF b THEN 1 ELSE 0]
PyError(e) == [t |-> e, v |-> 0]
NoAcc == [kind |-> "none", val |-> PyNone]
Returned(v) == [kind |-> "return", val |-> v]
Raised(e) == [kind |-> "raise", val |-> e]

\* SwitchbotDevice.__init__: the checksum token of the password
PasswordEncoded(password) ==
    IF ~password.given \/ password.text = <<>>
    THEN [none |-> TRUE, hex |-> <<>>]
    ELSE [none |-> FALSE, hex |-> FormatWordx(crc32(password.text))]

\* SwitchbotDevice._commandkey
commandkey(encoded, k) ==
    IF encoded.none THEN k
    ELSE KEY_PASSWORD_PREFIX \o <<k[4]>> \o encoded.hex \o SubSeq(k, 5, Len(k))

(***************************************************************************)
(* What a facade operation makes of the value _sendcommand returned.       *)
(***************************************************************************)
\* result[i] (i counted from 0): the error Python raises, or "ok"
Subscript(result, i) ==
    IF result.tag = "coroutine" THEN "TypeError"
    ELSE IF Len(result.val) <= i THEN "IndexError"
    ELSE "ok"

\* bool(result): a coroutine object is true, bytes are true when not empty
Truthy(result) == result.tag = "coroutine" \/ result.val # <<>>

BoolValue(b) == IF b THEN "True" ELSE "False"

turn_on(result) ==
    IF Subscript(result, 0) # "ok" THEN Raised(Subscript(result, 0))
    ELSE IF result.val[1] = 1 THEN Returned("True")
    ELSE IF result.val[1] = 5 THEN Returned("True")
    ELSE Returned("False")

turn_off(result) ==
    IF Subscript(result, 0) # "ok" THEN Raised(Subscript(result, 0))
    ELSE IF result.val[1] = 1 THEN Returned("True")
    ELSE IF result.val[1] = 5 THEN Returned("True")
    ELSE Returned("False")

press(result) ==
    IF Subscript(result, 0) # "ok" THEN Raised(Subscript(result, 0))
    ELSE IF result.val[1] = 1 THEN Returned("True")
    ELSE IF result.val[1] = 5 THEN Returned("True")
    ELSE Returned("False")

set_switch_mode(result) ==
    IF Subscript(result, 0) # "ok" THEN Raised(Subscript(result, 0))
    ELSE Returned(BoolValue(result.val[1] = 1))

set_long_press(result) ==
    IF Subscript(result, 0) # "ok" THEN Raised(Subscript(result, 0))
    ELSE Returned(BoolValue(result.val[1] = 1))

open(result) ==
    IF Subscript(result, 0) # "ok" THEN Raised(Subscript(result, 0))
    ELSE Returned(BoolValue(result.val[1] = 1))

close(result) ==
    IF Subscript(result, 0) # "ok" THEN Raised(Subscript(result, 0))
    ELSE Returned(BoolValue(result.val[1] = 1))

stop(result) ==
    IF Subscript(result, 0) # "ok" THEN Raised(Subscript(result, 0))
    ELSE Returned(BoolValue(result.val[1] = 1))

set_position(result) ==
    IF Subscript(result, 0) # "ok" THEN Raised(Subscript(result, 0))
    ELSE Returned(BoolValue(result.val[1] = 1))

\* Switchbot.get_basic_info reads bytes 1, 2, 3, 8, 9, 10 of the result
bot_get_basic_info(settings_data) ==
    IF ~Truthy(settings_data) THEN Returned("None")
    ELSE IF settings_data.tag = "bytes" /\ settings_data.val \in {<<7>>, <<0>>}
    THEN Returned("None")
    ELSE IF Subscript(settings_data, 1) # "ok" THEN Raised(Subscript(settings_data, 1))
    ELSE IF Subscript(settings_data, 10) # "ok" THEN Raised(Subscript(settings_data, 10))
    ELSE Returned("settings")

\* SwitchbotCurtain.get_basic_info reads bytes 1 .. 7 of the result
curtain_get_basic_info(settings_data) ==
    IF ~Truthy(settings_data) THEN Returned("None")
    ELSE IF settings_data.tag = "bytes" /\ settings_data.val \in {<<7>>, <<0>>}
    THEN Returned("None")
    ELSE IF Subscript(settings_data, 1) # "ok" THEN Raised(Subscript(settings_data, 1))
    ELSE IF Subscript(settings_data, 7) # "ok" THEN Raised(Subscript(settings_data, 7))
    ELSE Returned("settings")

\* get_extended_info_summary reads bytes 0, 1, 2 of the result
get_extended_info_summary(data) ==
    IF ~Truthy(data) THEN Returned("None")
    ELSE IF Subscript(data, 0) # "ok" THEN Raised(Subscript(data, 0))
    ELSE IF data.val[1] # 1 THEN Returned("None")
    ELSE IF Subscript(data, 2) # "ok" THEN Raised(Subscript(data, 2))
    ELSE Returned("ext_info_sum")

\* self.ext_info_sum is a dict with the keys "device0" and "device1": <<>>
\* stands for an absent key and <<e>> for the key with the entry e
NoExtInfo == [device0 |-> <<>>, device1 |-> <<>>]

\* the dict {} a device entry is before its fields are assigned
EmptyEntry == [openDirection |-> "unset"]

\* the entry of device0: "data[1] & 0b00010000 == 1" compares after the
\* masking and is false for every byte
Device0Entry(b) ==
    [openDirectionDefault |-> ~((b \div 128) % 2 = 1),
     touchToOpen |-> (b \div 64) % 2 = 1,
     light |-> (b \div 32) % 2 = 1,
     openDirection |-> IF ((b \div 16) % 2) * 16 = 1
                       THEN "left_to_right" ELSE "right_to_left"]

\* the entry of device1, of the same byte data[1]
Device1Entry(b) ==
    [openDirectionDefault |-> ~((b \div 128) % 2 = 1),
     touchToOpen |-> (b \div 64) % 2 = 1,
     light |-> (b \div 32) % 2 = 1,
     openDirection |-> IF (b \div 16) % 2 = 1
                       THEN "left_to_right" ELSE "right_to_left"]

\* self.ext_info_sum after get_extended_info_summary got data from
\* _sendcommand: the keys are assigned one by one, nothing is removed, and
\* an IndexError leaves what was assigned before it
ext_info_sum_after(info, data) ==
    IF ~Truthy(data) \/ Subscript(data, 0) # "ok" THEN info
    ELSE IF data.val[1] # 1 THEN info
    ELSE IF Subscript(data, 1) # "ok" THEN [info EXCEPT !.device0 = <<EmptyEntry>>]
    ELSE LET info0 == [info EXCEPT !.device0 = <<Device0Entry(data.val[2])>>]
         IN  IF Subscript(data, 2) # "ok" THEN info0
             ELSE IF data.val[3] # 0
             THEN [info0 EXCEPT !.device1 = <<Device1Entry(data.val[2])>>]
             ELSE info0

\* get_extended_info_adv reads bytes 0 .. 4 and, if byte 4 is set, 5 and 6
get_extended_info_adv(data) ==
    IF ~Truthy(data) THEN Returned("None")
    ELSE IF Subscript(data, 0) # "ok" THEN Raised(Subscript(data, 0))
    ELSE IF data.val[1] # 1 THEN Returned("None")
    ELSE IF Subscript(data, 4) # "ok" THEN Raised(Subscript(data, 4))
    ELSE IF data.val[5] # 0 /\ Subscript(data, 6) # "ok" THEN Raised(Subscript(data, 6))
    ELSE Returned("ext_info_adv")

FacadeResult(opname, result) ==
    CASE opname = "turn_on" -> turn_on(result)
      [] opname = "turn_off" -> turn_off(result)
      [] opname = "press" -> press(result)
      [] opname = "set_switch_mode" -> set_switch_mode(result)
      [] opname = "set_long_press" -> set_long_press(result)
      [] opname = "open" -> open(result)
      [] opname = "close" -> close(result)
      [] opname = "stop" -> stop(result)
      [] opname = "set_position" -> set_position(result)
      [] opname = "bot_get_basic_info" -> bot_get_basic_info(result)
      [] opname = "curtain_get_basic_info" -> curtain_get_basic_info(result)
      [] opname = "get_extended_info_summary" -> get_extended_info_summary(result)
      [] opname = "get_extended_info_adv" -> get_extended_info_adv(result)

(***************************************************************************)
(* SwitchbotDevice._sendcommand.                                           *)
(***************************************************************************)
TryPcs == {"connect", "subscribe", "write", "read"}

\* _disconnect awaited after the try statement instead of in a finally
\* clause: skipped when an exception is leaving the try block
DisconnectsAfterTry(pending) == pending = "none"

\* the finally clause: _disconnect is awaited however the try block was left
FinallyDisconnects(pending) == TRUE

\* the statements after the finally clause: the value _sendcommand returns.
\* The retry is a call of the coroutine function that is not awaited.
SendcommandResult(msg, r, k) ==
    IF msg # <<>> THEN BytesValue(msg)
    ELSE IF r < 1 THEN BytesValue(msg)
    ELSE CoroutineValue(k)

\* a _sendcommand that begins by dropping what the facade has cached
BeginSendDropsCache(d, opname, k, a, b) ==
    /\ pc[d] = "idle"
    /\ pc' = [pc EXCEPT ![d] = "connect"]
    /\ op' = [op EXCEPT ![d] = opname]
    /\ key' = [key EXCEPT ![d] = k]
    /\ command' = [command EXCEPT ![d] = CoroutineValue(k)]
    /\ retry' = [retry EXCEPT ![d] = retry_count[d]]
    /\ notify_msg' = [notify_msg EXCEPT ![d] = <<0>>]
    /\ exc' = [exc EXCEPT ![d] = "none"]
    /\ plan' = [plan EXCEPT ![d] = <<b>>]
    /\ conn_calls' = [conn_calls EXCEPT ![d] = 0]
    /\ disc_calls' = [disc_calls EXCEPT ![d] = 0]
    /\ writes' = [writes EXCEPT ![d] = <<>>]
    /\ steps' = [steps EXCEPT ![d] = <<>>]
    /\ send_result' = [send_result EXCEPT ![d] = NoValue]
    /\ outcome' = [outcome EXCEPT ![d] = NoOutcome]
    /\ arg' = [arg EXCEPT ![d] = a]
    /\ switchbot_device_data' =
           [switchbot_device_data EXCEPT ![d] = <<[data |-> [rssi |-> 0]]>>]
    /\ UNCHANGED <<objectVars, wrapped, scan_pc, connect_lock, acc, air,
                   scannerVars, decoded, ext_info_sum>>

\* A facade operation calls _sendcommand(k, self._retry_count), which runs up
\* to its first await; b is what the BLE stack will do in this attempt.
BeginSend(d, opname, k, a, b) ==
    /\ pc[d] = "idle"
    /\ pc' = [pc EXCEPT ![d] = "connect"]
    /\ op' = [op EXCEPT ![d] = opname]
    /\ key' = [key EXCEPT ![d] = k]
    /\ command' = [command EXCEPT ![d] = CoroutineValue(k)]
    /\ retry' = [retry EXCEPT ![d] = retry_count[d]]
    /\ notify_msg' = [notify_msg EXCEPT ![d] = <<0>>]
    /\ exc' = [exc EXCEPT ![d] = "none"]
    /\ plan' = [plan EXCEPT ![d] = <<b>>]
    /\ conn_calls' = [conn_calls EXCEPT ![d] = 0]
    /\ disc_calls' = [disc_calls EXCEPT ![d] = 0]
    /\ writes' = [writes EXCEPT ![d] = <<>>]
    /\ steps' = [steps EXCEPT ![d] = <<>>]
    /\ send_result' = [send_result EXCEPT ![d] = NoValue]
    /\ outcome' = [outcome EXCEPT ![d] = NoOutcome]
    /\ arg' = [arg EXCEPT ![d] = a]
    /\ UNCHANGED <<objectVars, wrapped, scan_pc, connect_lock, restVars>>

\* a try block that starts over at _connect after a BleakError, without
\* counting the attempts
LeaveAwaitStartOver(d, o, nextpc) ==
    /\ steps' = [steps EXCEPT ![d] = Append(@, [call |-> pc[d], result |-> o])]
    /\ pc' = [pc EXCEPT ![d] =
           IF o = "ok" THEN nextpc
           ELSE IF o = "BleakError" THEN "connect" ELSE "disconnect"]
    /\ exc' = [exc EXCEPT ![d] = IF o \in {"ok", "BleakError"} THEN "none" ELSE o]

\* a try block that goes on to the next call after a BleakError
LeaveAwaitCatchInside(d, o, nextpc) ==
    /\ steps' = [steps EXCEPT ![d] = Append(@, [call |-> pc[d], result |-> o])]
    /\ pc' = [pc EXCEPT ![d] =
           IF o \in {"ok", "BleakError"} THEN nextpc ELSE "disconnect"]
    /\ exc' = [exc EXCEPT ![d] = IF o \in {"ok", "BleakError"} THEN "none" ELSE o]

\* how the try block goes on after an awaited call ended with o: BleakError
\* is caught by the except clause, any other error leaves through finally
LeaveAwait(d, o, nextpc) ==
    /\ steps' = [steps EXCEPT ![d] = Append(@, [call |-> pc[d], result |-> o])]
    /\ pc' = [pc EXCEPT ![d] = IF o = "ok" THEN nextpc ELSE "disconnect"]
    /\ exc' = [exc EXCEPT ![d] = IF o \in {"ok", "BleakError"} THEN "none" ELSE o]

\* The next awaited call of the try block: _connect, _subscribe, _writekey
\* or _readkey.
TryStep(d) ==
    /\ pc[d] \in TryPcs
    /\ LET b == plan[d][Len(plan[d])]
       IN  \/ /\ pc[d] = "connect"
              /\ conn_calls' = [conn_calls EXCEPT ![d] = @ + 1]
              /\ LeaveAwait(d, StackCall(b, "connect"), "subscribe")
              /\ UNCHANGED <<writes, notify_msg>>
           \/ /\ pc[d] = "subscribe"
              /\ LeaveAwait(d, StackCall(b, "subscribe"), "write")
              /\ UNCHANGED <<conn_calls, writes, notify_msg>>
           \/ /\ pc[d] = "write"
              /\ IF command[d].tag # "str"
                 THEN \* bytearray.fromhex(key) of a value that is not a str
                      /\ LeaveAwait(d, "TypeError", "read")
                      /\ UNCHANGED writes
                 ELSE IF ~FromHexAccepts(command[d].val)
                 THEN /\ LeaveAwait(d, "ValueError", "read")
                      /\ UNCHANGED writes
                 ELSE /\ writes' = [writes EXCEPT ![d] = Append(@, FromHex(command[d].val))]
                      /\ LeaveAwait(d, StackCall(b, "write"), "read")
              /\ UNCHANGED <<conn_calls, notify_msg>>
           \/ /\ pc[d] = "read"
              /\ notify_msg' = [notify_msg EXCEPT ![d] =
                     IF StackCall(b, "read") = "ok" THEN b.resp ELSE @]
              /\ LeaveAwait(d, StackCall(b, "read"), "disconnect")
              /\ UNCHANGED <<conn_calls, writes>>
    /\ UNCHANGED <<objectVars, op, key, command, retry, plan, disc_calls,
                   send_result, outcome, arg, wrapped, scan_pc, connect_lock, restVars>>

\* The finally clause (_disconnect, which swallows BleakError), the statements
\* of _sendcommand after it, and the rest of the facade operation.
Disconnect(d) ==
    /\ pc[d] = "disconnect"
    /\ LET b == plan[d][Len(plan[d])]
           invoked == FinallyDisconnects(exc[d])
           o == IF invoked THEN b.disconnect ELSE "ok"
           pending == IF o \in {"ok", "BleakError"} THEN exc[d] ELSE o
           returned == SendcommandResult(notify_msg[d], retry[d], key[d])
       IN  /\ disc_calls' = [disc_calls EXCEPT ![d] = IF invoked THEN @ + 1 ELSE @]
           /\ exc' = [exc EXCEPT ![d] = pending]
           /\ send_result' = [send_result EXCEPT ![d] =
                  IF pending # "none" THEN NoValue ELSE returned]
           /\ outcome' = [outcome EXCEPT ![d] =
                  IF pending # "none" THEN Raised(pending)
                  ELSE FacadeResult(op[d], returned)]
           /\ ext_info_sum' = [ext_info_sum EXCEPT ![d] =
                  IF pending = "none" /\ op[d] = "get_extended_info_summary"
                  THEN ext_info_sum_after(@, returned) ELSE @]
    /\ pc' = [pc EXCEPT ![d] = "done"]
    /\ UNCHANGED <<objectVars, op, key, command, retry, notify_msg, plan,
                   conn_calls, writes, steps, arg, wrapped, scan_pc, connect_lock,
                   cacheVars, scannerVars, decoded>>

(***************************************************************************)
(* The facade operations.                                                  *)
(***************************************************************************)
\* the key Switchbot.set_switch_mode builds
set_switch_mode_key(switch_mode, strength, inverse) ==
    DEVICE_SET_MODE_KEY \o FormatWidth2x(strength)
        \o FormatBoolB(switch_mode) \o FormatBoolB(inverse)

\* the key Switchbot.set_long_press builds
set_long_press_key(duration) ==
    DEVICE_SET_EXTENDED_KEY \o <<"0", "8">> \o FormatWidth2x(duration)

\* the key SwitchbotCurtain.set_position builds
set_position_key(rev, position) ==
    POSITION_KEY \o FormatPrec2X(IF rev THEN 100 - position ELSE position)

TurnOn(d) ==
    /\ cls[d] = "Switchbot"
    /\ \E b \in StubBehaviours : BeginSend(d, "turn_on", ON_KEY, 0, b)

TurnOff(d) ==
    /\ cls[d] = "Switchbot"
    /\ \E b \in StubBehaviours : BeginSend(d, "turn_off", OFF_KEY, 0, b)

Press(d) ==
    /\ cls[d] = "Switchbot"
    /\ \E b \in StubBehaviours : BeginSend(d, "press", PRESS_KEY, 0, b)

SetSwitchMode(d) ==
    /\ cls[d] = "Switchbot"
    /\ \E b \in StubBehaviours, switch_mode \in BOOLEAN, inverse \in BOOLEAN,
          strength \in Strengths :
          BeginSend(d, "set_switch_mode",
                    set_switch_mode_key(switch_mode, strength, inverse), strength, b)

SetLongPress(d) ==
    /\ cls[d] = "Switchbot"
    /\ \E b \in StubBehaviours, duration \in Durations :
          BeginSend(d, "set_long_press", set_long_press_key(duration), duration, b)

BotGetBasicInfo(d) ==
    /\ cls[d] = "Switchbot"
    /\ \E b \in StubBehaviours :
          BeginSend(d, "bot_get_basic_info", DEVICE_GET_BASIC_SETTINGS_KEY, 0, b)

Open(d) ==
    /\ cls[d] = "SwitchbotCurtain"
    /\ \E b \in StubBehaviours : BeginSend(d, "open", OPEN_KEY, 0, b)

Close(d) ==
    /\ cls[d] = "SwitchbotCurtain"
    /\ \E b \in StubBehaviours : BeginSend(d, "close", CLOSE_KEY, 0, b)

Stop(d) ==
    /\ cls[d] = "SwitchbotCurtain"
    /\ \E b \in StubBehaviours : BeginSend(d, "stop", STOP_KEY, 0, b)

SetPosition(d) ==
    /\ cls[d] = "SwitchbotCurtain"
    /\ \E b \in StubBehaviours, position \in Positions :
          BeginSend(d, "set_position", set_position_key(reverse[d], position),
                    position, b)

CurtainGetBasicInfo(d) ==
    /\ cls[d] = "SwitchbotCurtain"
    /\ \E b \in StubBehaviours :
          BeginSend(d, "curtain_get_basic_info", DEVICE_GET_BASIC_SETTINGS_KEY, 0, b)

GetExtendedInfoSummary(d) ==
    /\ cls[d] = "SwitchbotCurtain"
    /\ \E b \in StubBehaviours :
          BeginSend(d, "get_extended_info_summary", CURTAIN_EXT_SUM_KEY, 0, b)

GetExtendedInfoAdv(d) ==
    /\ cls[d] = "SwitchbotCurtain"
    /\ \E b \in StubBehaviours :
          BeginSend(d, "get_extended_info_adv", CURTAIN_EXT_ADV_KEY, 0, b)

\* the keys _commandkey is called with: those the facade operations build
CommandKeys ==
    {DEVICE_GET_BASIC_SETTINGS_KEY, PRESS_KEY, ON_KEY, OFF_KEY, OPEN_KEY,
     CLOSE_KEY, STOP_KEY, CURTAIN_EXT_SUM_KEY, CURTAIN_EXT_ADV_KEY}
    \cup {set_long_press_key(duration) : duration \in {0, 255}}
    \cup {set_switch_mode_key(TRUE, 100, FALSE)}
    \cup {set_position_key(FALSE, position) : position \in {0, 50, 100}}

\* await self._commandkey(k), called on its own; no _sendcommand frame is
\* alive afterwards
CommandKey(d) ==
    /\ pc[d] = "idle"
    /\ \E k \in CommandKeys :
          /\ key' = [key EXCEPT ![d] = k]
          /\ wrapped' = [wrapped EXCEPT ![d] =
                 [called |-> TRUE, out |-> commandkey(password_encoded[d], k)]]
    /\ pc' = [pc EXCEPT ![d] = "done"]
    /\ op' = [op EXCEPT ![d] = "commandkey"]
    /\ UNCHANGED <<objectVars, command, retry, notify_msg, exc, stackVars,
                   send_result, outcome, arg, scan_pc, connect_lock, restVars>>

\* The caller has the result of the operation; its coroutine is gone and the
\* facade can be called again.
Finish(d) ==
    /\ pc[d] = "done"
    /\ pc' = [pc EXCEPT ![d] = "idle"]
    /\ op' = [op EXCEPT ![d] = "none"]
    /\ key' = [key EXCEPT ![d] = <<>>]
    /\ command' = [command EXCEPT ![d] = StrValue(<<>>)]
    /\ retry' = [retry EXCEPT ![d] = 0]
    /\ notify_msg' = [notify_msg EXCEPT ![d] = <<>>]
    /\ exc' = [exc EXCEPT ![d] = "none"]
    /\ plan' = [plan EXCEPT ![d] = <<>>]
    /\ conn_calls' = [conn_calls EXCEPT ![d] = 0]
    /\ disc_calls' = [disc_calls EXCEPT ![d] = 0]
    /\ writes' = [writes EXCEPT ![d] = <<>>]
    /\ steps' = [steps EXCEPT ![d] = <<>>]
    /\ send_result' = [send_result EXCEPT ![d] = NoValue]
    /\ outcome' = [outcome EXCEPT ![d] = NoOutcome]
    /\ arg' = [arg EXCEPT ![d] = 0]
    /\ wrapped' = [wrapped EXCEPT ![d] = NotWrapped]
    /\ acc' = [acc EXCEPT ![d] = NoAcc]
    /\ air' = [air EXCEPT ![d] = <<>>]
    /\ UNCHANGED <<objectVars, scan_pc, connect_lock, switchbot_device_data,
                   scannerVars, decoded, ext_info_sum>>

(***************************************************************************)
(* The decoders of advertisement payloads.  A payload is a sequence of     *)
(* bytes; data[i] of the source is Byte(data, i).                          *)
(***************************************************************************)
HasByte(data, i) == i < Len(data)
Byte(data, i) == data[i + 1]

\* a decoder that indexed past the end of the payload
DecodeError == [err |-> "IndexError"]
Decoded(r) == [err |-> "none", rec |-> r]

\* _process_wohand with isOn taken from bit 6 whatever switchMode is
process_wohand_anymode(data) ==
    IF ~HasByte(data, 1) \/ ~HasByte(data, 2) THEN DecodeError
    ELSE Decoded([switchMode |-> (Byte(data, 1) \div 128) % 2 = 1,
                  isOn |-> ~((Byte(data, 1) \div 64) % 2 = 1),
                  battery |-> Byte(data, 2) % 128])

\* _process_wohand
process_wohand(data) ==
    IF ~HasByte(data, 1) \/ ~HasByte(data, 2) THEN DecodeError
    ELSE LET switchMode == (Byte(data, 1) \div 128) % 2 = 1
         IN  Decoded([switchMode |-> switchMode,
                      isOn |-> IF switchMode
                               THEN ~((Byte(data, 1) \div 64) % 2 = 1)
                               ELSE FALSE,
                      battery |-> Byte(data, 2) % 128])

Min(a, b) == IF a < b THEN a ELSE b
Max(a, b) == IF a > b THEN a ELSE b

\* _process_wocurtain that reverses the raw value and does not clamp it
process_wocurtain_noclamp(data, rev) ==
    IF \E i \in 1..4 : ~HasByte(data, i) THEN DecodeError
    ELSE LET position == Byte(data, 3) % 128
         IN  Decoded([calibration |-> (Byte(data, 1) \div 64) % 2 = 1,
                      battery |-> Byte(data, 2) % 128,
                      inMotion |-> (Byte(data, 3) \div 128) % 2 = 1,
                      position |-> IF rev THEN 100 - position ELSE position,
                      lightLevel |-> (Byte(data, 4) \div 16) % 16,
                      deviceChain |-> Byte(data, 4) % 8])

\* _process_wocurtain
process_wocurtain(data, rev) ==
    IF \E i \in 1..4 : ~HasByte(data, i) THEN DecodeError
    ELSE LET position == Max(Min(Byte(data, 3) % 128, 100), 0)
         IN  Decoded([calibration |-> (Byte(data, 1) \div 64) % 2 = 1,
                      battery |-> Byte(data, 2) % 128,
                      inMotion |-> (Byte(data, 3) \div 128) % 2 = 1,
                      position |-> IF rev THEN 100 - position ELSE position,
                      lightLevel |-> (Byte(data, 4) \div 16) % 16,
                      deviceChain |-> Byte(data, 4) % 8])

\* _process_wosensorth.  The temperatures are floats in the source; here
\* temp.c counts tenths of a degree and temp.f fiftieths of a degree, in
\* which (9 c / 5 + 32) is the integer 9 c10 + 1600.
process_wosensorth(data) ==
    IF \E i \in 2..5 : ~HasByte(data, i) THEN DecodeError
    ELSE LET temp_sign == IF (Byte(data, 4) \div 128) % 2 = 1 THEN 1 ELSE -1
             temp_c == temp_sign * (10 * (Byte(data, 4) % 128) + Byte(data, 3))
             temp_f == 9 * temp_c + 1600
         IN  Decoded([temp |-> [c |-> temp_c, f |-> temp_f],
                      fahrenheit |-> (Byte(data, 5) \div 128) % 2 = 1,
                      humidity |-> Byte(data, 5) % 128,
                      battery |-> Byte(data, 2) % 128])

(***************************************************************************)
(* GetSwitchbotDevices.  A dict keyed by device is a function on           *)
(* DeviceKeys whose value is <<>> for an absent key and <<entry>> for a    *)
(* present one.  The model letter chr(n) is kept as its code point n:      *)
(* "H" is 72, "c" is 99, "T" is 84.                                        *)
(***************************************************************************)
Addresses == {<<"A", "A", ":", "0", "1">>, <<"A", "A", ":", "0", "2">>}

\* device.address.replace(":", "")
StripColons(address) ==
    LET NotColon(c) == c # ":" IN SelectSeq(address, NotColon)

DeviceKeys == {StripColons(a) : a \in Addresses}
EmptyDict == [k \in DeviceKeys |-> <<>>]

\* device.rssi of the advertisements the scanner stub delivers
Rssis == {0 - 60}

\* the service data of the advertisements the scanner stub delivers
ScanPayloads ==
    {<<>>, <<72>>, <<72, 192>>, <<65, 1, 2>>,
     <<72, 192, 50, 0, 0>>, <<200, 128, 127, 1, 1>>,
     <<99, 64, 90, 30>>, <<99, 64, 90, 30, 37>>, <<99, 0, 228, 200, 255, 0>>,
     <<84, 0, 100, 5, 150>>, <<84, 0, 100, 5, 150, 173>>}
    \cup {<<72, b1, b2>> : b1 \in {0, 64, 128, 192, 255}, b2 \in {0, 50, 127, 128}}

NoCbError == [err |-> "none", at |-> "none"]

\* GetSwitchbotDevices.detection_callback on self._data = dict: the dict it
\* leaves, the error that leaves it and the expression that raised it.  The
\* entry is written before the decoder is called.
detection_callback(dict, address, rssi, service_data) ==
    IF ~HasByte(service_data, 0)
    THEN [data |-> dict, err |-> "IndexError", at |-> "_service_data[0]"]
    ELSE
      LET device == StripColons(address)
          model == Byte(service_data, 0) % 128
          isEncrypted == (Byte(service_data, 0) \div 128) % 2 = 1
          Entry(d) == [mac_address |-> address, service_data |-> service_data,
                       isEncrypted |-> isEncrypted, model |-> model, data |-> d]
          Named(n, d) == [mac_address |-> address, service_data |-> service_data,
                          isEncrypted |-> isEncrypted, model |-> model, data |-> d,
                          modelName |-> n]
          Store(e) == [dict EXCEPT ![device] = <<e>>]
          Process(n, fn, r) ==
              IF r.err = "none"
              THEN [data |-> Store(Named(n, r.rec)), err |-> "none", at |-> "none"]
              ELSE [data |-> Store(Named(n, [rssi |-> rssi])), err |-> r.err,
                    at |-> fn]
      IN  IF model = 72
          THEN Process("WoHand", "_process_wohand", process_wohand(service_data))
          ELSE IF model = 99
          THEN Process("WoCurtain", "_process_wocurtain",
                       process_wocurtain(service_data, TRUE))
          ELSE IF model = 84
          THEN Process("WoSensorTH", "_process_wosensorth",
                       process_wosensorth(service_data))
          ELSE [data |-> Store(Entry([rssi |-> rssi])), err |-> "none",
                at |-> "none"]

\* the loop of get_curtains, get_bots and get_tempsensors over dict
DevicesOfModel(dict, model) ==
    [k \in DeviceKeys |->
        IF dict[k] # <<>> /\ dict[k][1].model = model THEN dict[k] ELSE <<>>]

get_curtains(dict) == DevicesOfModel(dict, 99)
get_bots(dict) == DevicesOfModel(dict, 72)
get_tempsensors(dict) == DevicesOfModel(dict, 84)

\* GetSwitchbotDevices.get_device_data: the entry whose mac_address is mac,
\* <<>> for the empty dict the loop starts from
get_device_data(dict, mac) ==
    IF \E k \in DeviceKeys : dict[k] # <<>> /\ dict[k][1].mac_address = mac
    THEN dict[CHOOSE k \in DeviceKeys :
                  dict[k] # <<>> /\ dict[k][1].mac_address = mac]
    ELSE <<>>

NoLookup == [op |-> "none", mac |-> <<>>, found |-> <<>>, devices |-> EmptyDict]

(***************************************************************************)
(* GetSwitchbotDevices.discover: the scanner is made with                  *)
(* detection_callback registered and the coroutine is suspended in turn    *)
(* in start(), in asyncio.sleep(scan_timeout) and in stop(); then          *)
(* self._data is returned.  While it is suspended the event loop runs the  *)
(* callbacks of the scanner and the other coroutines.                      *)
(***************************************************************************)
\* where discover is suspended while the scanner exists
ScanPcs == {"start", "sleep", "stop"}

\* discover is called and runs up to "await devices.start()"
ScanStart ==
    /\ scan_pc = "idle"
    /\ scan_pc' = "start"
    /\ lookup' = NoLookup
    /\ UNCHANGED <<objectVars, frameVars, stackVars, send_result, outcome, arg,
                   wrapped, connect_lock, cacheVars, sd_data, all_services_data,
                   cb_error, decoded, ext_info_sum>>

\* the scanner delivers an advertisement to detection_callback
DetectionCallback ==
    /\ scan_pc \in ScanPcs
    /\ \E address \in Addresses, rssi \in Rssis, service_data \in ScanPayloads :
          LET r == detection_callback(sd_data, address, rssi, service_data)
          IN  /\ sd_data' = r.data
              /\ cb_error' = [err |-> r.err, at |-> r.at]
    /\ lookup' = NoLookup
    /\ UNCHANGED <<objectVars, frameVars, stackVars, send_result, outcome, arg,
                   wrapped, scan_pc, connect_lock, cacheVars, all_services_data,
                   decoded, ext_info_sum>>

\* start() has returned: discover runs up to "await asyncio.sleep(...)"
ScanSleep ==
    /\ scan_pc = "start"
    /\ scan_pc' = "sleep"
    /\ UNCHANGED <<objectVars, frameVars, stackVars, send_result, outcome, arg,
                   wrapped, connect_lock, cacheVars, scannerVars, decoded,
                   ext_info_sum>>

\* the scan window is over: discover runs up to "await devices.stop()"
ScanStop ==
    /\ scan_pc = "sleep"
    /\ scan_pc' = "stop"
    /\ UNCHANGED <<objectVars, frameVars, stackVars, send_result, outcome, arg,
                   wrapped, connect_lock, cacheVars, scannerVars, decoded,
                   ext_info_sum>>

\* stop() has returned: discover returns self._data
ScanReturn ==
    /\ scan_pc = "stop"
    /\ scan_pc' = "idle"
    /\ lookup' = [op |-> "discover", mac |-> <<>>, found |-> <<>>,
                  devices |-> sd_data]
    /\ UNCHANGED <<objectVars, frameVars, stackVars, send_result, outcome, arg,
                   wrapped, connect_lock, cacheVars, sd_data, all_services_data,
                   cb_error, decoded, ext_info_sum>>

\* The queries of the scanner object.  Each begins with
\* "if not self._all_services_data: self.discover()", which makes a
\* coroutine object of discover and drops it: nothing is scanned.
queryFrame == <<objectVars, frameVars, stackVars, send_result, outcome, arg,
                wrapped, scan_pc, connect_lock, cacheVars, sd_data,
                all_services_data, cb_error, decoded, ext_info_sum>>

GetDeviceData ==
    /\ \E mac \in Addresses :
          lookup' = [op |-> "get_device_data", mac |-> mac,
                     found |-> get_device_data(all_services_data, mac),
                     devices |-> EmptyDict]
    /\ UNCHANGED queryFrame

GetBots ==
    /\ lookup' = [op |-> "get_bots", mac |-> <<>>, found |-> <<>>,
                  devices |-> get_bots(all_services_data)]
    /\ UNCHANGED queryFrame

GetCurtains ==
    /\ lookup' = [op |-> "get_curtains", mac |-> <<>>, found |-> <<>>,
                  devices |-> get_curtains(all_services_data)]
    /\ UNCHANGED queryFrame

GetTempsensors ==
    /\ lookup' = [op |-> "get_tempsensors", mac |-> <<>>, found |-> <<>>,
                  devices |-> get_tempsensors(all_services_data)]
    /\ UNCHANGED queryFrame

(***************************************************************************)
(* Direct calls of the decoders.                                           *)
(***************************************************************************)
Bytes == 0..255

\* payloads in which one byte takes every value and the others are 0 or 255
BotPayloads ==
    {<<72, b1, b2>> : b1 \in Bytes, b2 \in {0, 50, 127, 128, 255}}
    \cup {<<72, b1, b2>> : b1 \in {0, 64, 128, 192, 255}, b2 \in Bytes}

CurtainPayloads ==
    UNION {{<<99, b, x, y, z>>, <<99, x, b, y, z>>, <<99, x, y, b, z>>,
            <<99, x, y, z, b>>} :
           b \in Bytes, x \in {0, 255}, y \in {0, 255}, z \in {0, 255}}

SensorPayloads ==
    {<<84, 0, b2, b3, b4, b5>> :
        b2 \in {0, 100, 255}, b3 \in {0, 9}, b4 \in {0, 25, 128, 153}, b5 \in {45, 173}}

ShortPayloads == {<<72>>, <<72, 192>>, <<99, 64, 90, 30>>, <<84, 0, 100, 5, 150>>}

NotDecoded == [fn |-> "none", data |-> <<>>, rev |-> FALSE, out |-> DecodeError]

codecFrame == <<objectVars, frameVars, stackVars, send_result, outcome, arg,
                wrapped, scan_pc, connect_lock, cacheVars, scannerVars,
                ext_info_sum>>

ProcessWoHand ==
    /\ decoded.fn = "none"
    /\ \E data \in BotPayloads \cup ShortPayloads :
          decoded' = [fn |-> "_process_wohand", data |-> data, rev |-> FALSE,
                      out |-> process_wohand(data)]
    /\ UNCHANGED codecFrame

ProcessWoCurtain ==
    /\ decoded.fn = "none"
    /\ \E data \in CurtainPayloads \cup ShortPayloads, rev \in BOOLEAN :
          decoded' = [fn |-> "_process_wocurtain", data |-> data, rev |-> rev,
                      out |-> process_wocurtain(data, rev)]
    /\ UNCHANGED codecFrame

ProcessWoSensorTH ==
    /\ decoded.fn = "none"
    /\ \E data \in SensorPayloads \cup ShortPayloads :
          decoded' = [fn |-> "_process_wosensorth", data |-> data, rev |-> FALSE,
                      out |-> process_wosensorth(data)]
    /\ UNCHANGED codecFrame

\* the caller has the result of the decoder
DecodeReturn ==
    /\ decoded.fn # "none"
    /\ decoded' = NotDecoded
    /\ UNCHANGED codecFrame

(***************************************************************************)
(* The cached state of a facade: update and the accessors.  The cache      *)
(* self._switchbot_device_data is <<>> for the empty dict and <<entry>>    *)
(* for an entry of the scanner.                                            *)
(***************************************************************************)
\* self._mac
Mac(d) == IF d = 1 THEN <<"A", "A", ":", "0", "1">> ELSE <<"A", "A", ":", "0", "2">>

\* get_battery_percent without the test of the cache
get_battery_percent_unguarded(cache) ==
    IF cache = <<>> \/ "battery" \notin DOMAIN cache[1].data
    THEN Raised(PyError("KeyError"))
    ELSE Returned(PyInt(cache[1].data.battery))

\* SwitchbotDevice.get_battery_percent
get_battery_percent(cache) ==
    IF cache = <<>> THEN Returned(PyNone)
    ELSE IF "battery" \notin DOMAIN cache[1].data THEN Raised(PyError("KeyError"))
    ELSE Returned(PyInt(cache[1].data.battery))

\* Switchbot.switch_mode
cached_switch_mode(cache) ==
    IF cache = <<>> THEN Returned(PyNone)
    ELSE IF "switchMode" \notin DOMAIN cache[1].data THEN Raised(PyError("KeyError"))
    ELSE Returned(PyBool(cache[1].data.switchMode))

\* Switchbot.is_on
is_on(cache, inv) ==
    IF cache = <<>> THEN Returned(PyNone)
    ELSE IF "isOn" \notin DOMAIN cache[1].data THEN Raised(PyError("KeyError"))
    ELSE IF inv THEN Returned(PyBool(~cache[1].data.isOn))
    ELSE Returned(PyBool(cache[1].data.isOn))

\* SwitchbotCurtain.get_position
get_position(cache) ==
    IF cache = <<>> THEN Returned(PyNone)
    ELSE IF "position" \notin DOMAIN cache[1].data THEN Raised(PyError("KeyError"))
    ELSE Returned(PyInt(cache[1].data.position))

\* SwitchbotCurtain.get_light_level
get_light_level(cache) ==
    IF cache = <<>> THEN Returned(PyNone)
    ELSE IF "lightLevel" \notin DOMAIN cache[1].data THEN Raised(PyError("KeyError"))
    ELSE Returned(PyInt(cache[1].data.lightLevel))

\* SwitchbotCurtain.is_calibrated
is_calibrated(cache) ==
    IF cache = <<>> THEN Returned(PyNone)
    ELSE IF "calibration" \notin DOMAIN cache[1].data THEN Raised(PyError("KeyError"))
    ELSE Returned(PyBool(cache[1].data.calibration))

\* An accessor is awaited: it runs to its return without an await inside.
Accessor(d, opname, r) ==
    /\ pc[d] = "idle"
    /\ pc' = [pc EXCEPT ![d] = "done"]
    /\ op' = [op EXCEPT ![d] = opname]
    /\ acc' = [acc EXCEPT ![d] = r]
    /\ UNCHANGED <<objectVars, key, command, retry, notify_msg, exc, stackVars,
                   send_result, outcome, arg, wrapped, scan_pc, connect_lock,
                   switchbot_device_data, air, scannerVars, decoded, ext_info_sum>>

GetBatteryPercent(d) ==
    /\ cls[d] \in Classes
    /\ Accessor(d, "get_battery_percent", get_battery_percent(switchbot_device_data[d]))

SwitchMode(d) ==
    /\ cls[d] = "Switchbot"
    /\ Accessor(d, "switch_mode", cached_switch_mode(switchbot_device_data[d]))

IsOn(d) ==
    /\ cls[d] = "Switchbot"
    /\ Accessor(d, "is_on", is_on(switchbot_device_data[d], inverse_mode[d]))

GetPosition(d) ==
    /\ cls[d] = "SwitchbotCurtain"
    /\ Accessor(d, "get_position", get_position(switchbot_device_data[d]))

GetLightLevel(d) ==
    /\ cls[d] = "SwitchbotCurtain"
    /\ Accessor(d, "get_light_level", get_light_level(switchbot_device_data[d]))

IsCalibrated(d) ==
    /\ cls[d] = "SwitchbotCurtain"
    /\ Accessor(d, "is_calibrated", is_calibrated(switchbot_device_data[d]))

\* the advertisements that are on the air while update() runs
AirAdverts ==
    {[address |-> a, service_data |-> s] :
        a \in Addresses, s \in {<<72, 192, 50, 0, 0>>, <<99, 64, 90, 30, 37>>}}

AirScripts ==
    {<<>>} \cup {<<x>> : x \in AirAdverts}
           \cup {<<x, y>> : x \in AirAdverts, y \in AirAdverts}

\* what "await v" does with the value v of a call that was not a coroutine
AwaitOf(v) == IF v.tag = "coroutine" THEN "ok" ELSE "TypeError"

\* SwitchbotDevice.get_device_data, called by update().  It makes a new
\* GetSwitchbotDevices object, whose _all_services_data is empty, and calls
\* its get_device_data, a plain function: the discover() in it is a
\* coroutine object that is dropped, so no scanner is made and none of the
\* advertisements on the air is seen; the dict it returns is then awaited.
\* The assignment to self._switchbot_device_data is not reached.
Update(d) ==
    /\ pc[d] = "idle"
    /\ \E a \in AirScripts : air' = [air EXCEPT ![d] = a]
    /\ LET found == [tag |-> "dict", val |-> get_device_data(EmptyDict, Mac(d))]
       IN  /\ switchbot_device_data' =
                  IF AwaitOf(found) = "ok"
                  THEN [switchbot_device_data EXCEPT ![d] = found.val]
                  ELSE switchbot_device_data
           /\ outcome' = [outcome EXCEPT ![d] =
                  IF AwaitOf(found) = "ok" THEN Returned("None")
                  ELSE Raised(AwaitOf(found))]
    /\ pc' = [pc EXCEPT ![d] = "done"]
    /\ op' = [op EXCEPT ![d] = "update"]
    /\ UNCHANGED <<objectVars, key, command, retry, notify_msg, exc, stackVars,
                   send_result, arg, wrapped, scan_pc, connect_lock, acc,
                   scannerVars, decoded, ext_info_sum>>

(***************************************************************************)
(* Specifications.                                                         *)
(***************************************************************************)
\* the frame of a facade on which no operation has been called
IdleFrames ==
    /\ pc = [d \in Facades |-> "idle"]
    /\ op = [d \in Facades |-> "none"]
    /\ key = [d \in Facades |-> <<>>]
    /\ command = [d \in Facades |-> StrValue(<<>>)]
    /\ retry = [d \in Facades |-> 0]
    /\ notify_msg = [d \in Facades |-> <<>>]
    /\ exc = [d \in Facades |-> "none"]
    /\ plan = [d \in Facades |-> <<>>]
    /\ conn_calls = [d \in Facades |-> 0]
    /\ disc_calls = [d \in Facades |-> 0]
    /\ writes = [d \in Facades |-> <<>>]
    /\ send_result = [d \in Facades |-> NoValue]
    /\ outcome = [d \in Facades |-> NoOutcome]
    /\ arg = [d \in Facades |-> 0]
    /\ wrapped = [d \in Facades |-> NotWrapped]
    /\ scan_pc = "idle"
    /\ connect_lock = FALSE
    /\ steps = [d \in Facades |-> <<>>]
    /\ switchbot_device_data = [d \in Facades |-> <<>>]
    /\ acc = [d \in Facades |-> NoAcc]
    /\ air = [d \in Facades |-> <<>>]
    /\ sd_data = EmptyDict
    /\ all_services_data = EmptyDict
    /\ cb_error = NoCbError
    /\ lookup = NoLookup
    /\ decoded = NotDecoded
    /\ ext_info_sum = [d \in Facades |-> NoExtInfo]

\* One facade (1) constructed with any class, retry_count, reverse_mode and
\* password; facade 2 is constructed with the defaults and is not used.
Init ==
    /\ \E c \in Classes, r \in 0..MaxRetry, rev \in BOOLEAN, inv \in BOOLEAN,
          pw \in PasswordArgs :
          /\ c = "Switchbot" => rev
          /\ c = "SwitchbotCurtain" => ~inv
          /\ inverse_mode = [d \in Facades |-> IF d = 1 THEN inv ELSE FALSE]
          /\ cls = [d \in Facades |-> IF d = 1 THEN c ELSE "Switchbot"]
          /\ retry_count = [d \in Facades |-> IF d = 1 THEN r ELSE DEFAULT_RETRY_COUNT]
          /\ reverse = [d \in Facades |-> IF d = 1 THEN rev ELSE TRUE]
          /\ password_encoded =
                 [d \in Facades |-> PasswordEncoded(IF d = 1 THEN pw ELSE NoPassword)]
    /\ IdleFrames

Next ==
    \/ TurnOn(1)
    \/ TurnOff(1)
    \/ Press(1)
    \/ SetSwitchMode(1)
    \/ SetLongPress(1)
    \/ BotGetBasicInfo(1)
    \/ Open(1)
    \/ Close(1)
    \/ Stop(1)
    \/ SetPosition(1)
    \/ CurtainGetBasicInfo(1)
    \/ GetExtendedInfoSummary(1)
    \/ GetExtendedInfoAdv(1)
    \/ CommandKey(1)
    \/ Update(1)
    \/ GetBatteryPercent(1)
    \/ SwitchMode(1)
    \/ IsOn(1)
    \/ GetPosition(1)
    \/ GetLightLevel(1)
    \/ IsCalibrated(1)
    \/ TryStep(1)
    \/ Disconnect(1)
    \/ Finish(1)

Spec == Init /\ [][Next]_vars

\* Every call of the BLE stack that is awaited returns or fails, and the
\* event loop resumes the coroutine that awaited it.
SpecLive ==
    /\ Init
    /\ [][Next]_vars
    /\ WF_vars(TryStep(1))
    /\ WF_vars(Disconnect(1))

\* Two facades of any classes and a scanner share one event loop and one
\* adapter; the BLE stack's behaviours are a selection of StubBehaviours.
ConcStubs ==
    {[fault |-> "none", err |-> "ok", resp |-> <<1>>, disconnect |-> "ok"],
     [fault |-> "connect", err |-> "BleakError", resp |-> <<>>, disconnect |-> "ok"],
     [fault |-> "subscribe", err |-> "TimeoutError", resp |-> <<>>,
      disconnect |-> "BleakError"]}

InitConc ==
    /\ cls \in [Facades -> Classes]
    /\ retry_count = [d \in Facades |-> DEFAULT_RETRY_COUNT]
    /\ reverse = [d \in Facades |-> TRUE]
    /\ password_encoded = [d \in Facades |-> PasswordEncoded(NoPassword)]
    /\ inverse_mode = [d \in Facades |-> FALSE]
    /\ IdleFrames

ConcTurnOn(d) ==
    /\ cls[d] = "Switchbot"
    /\ \E b \in ConcStubs : BeginSend(d, "turn_on", ON_KEY, 0, b)

ConcOpen(d) ==
    /\ cls[d] = "SwitchbotCurtain"
    /\ \E b \in ConcStubs : BeginSend(d, "open", OPEN_KEY, 0, b)

NextConc ==
    \/ \E d \in Facades : ConcTurnOn(d)
    \/ \E d \in Facades : ConcOpen(d)
    \/ \E d \in Facades : TryStep(d)
    \/ \E d \in Facades : Disconnect(d)
    \/ \E d \in Facades : Finish(d)
    \/ ScanStart
    \/ ScanSleep
    \/ ScanStop
    \/ ScanReturn

SpecConc == InitConc /\ [][NextConc]_vars

\* no facade is used: both are constructed with the defaults
InitObjects ==
    /\ cls = [d \in Facades |-> "Switchbot"]
    /\ retry_count = [d \in Facades |-> DEFAULT_RETRY_COUNT]
    /\ reverse = [d \in Facades |-> TRUE]
    /\ password_encoded = [d \in Facades |-> PasswordEncoded(NoPassword)]
    /\ inverse_mode = [d \in Facades |-> FALSE]
    /\ IdleFrames

\* The scanner object alone: discover with the advertisements the stub
\* delivers, and the queries.
NextScan ==
    \/ ScanStart
    \/ DetectionCallback
    \/ ScanSleep
    \/ ScanStop
    \/ ScanReturn
    \/ GetDeviceData
    \/ GetBots
    \/ GetCurtains
    \/ GetTempsensors

SpecScan == InitObjects /\ [][NextScan]_vars

\* The decoders alone, called with payloads of every byte value.
NextCodec ==
    \/ ProcessWoHand
    \/ ProcessWoCurtain
    \/ ProcessWoSensorTH
    \/ DecodeReturn

SpecCodec == InitObjects /\ [][NextCodec]_vars

(***************************************************************************)
(* Properties.                                                             *)
(***************************************************************************)
MutatingOps ==
    {"turn_on", "turn_off", "press", "set_switch_mode", "set_long_press",
     "open", "close", "stop", "set_position"}

ReadOps ==
    {"bot_get_basic_info", "curtain_get_basic_info",
     "get_extended_info_summary", "get_extended_info_adv"}

\* the BLE stack fails connect with a link error
ConnectLinkFailure(b) == b.fault = "connect" /\ b.err = "BleakError"

\* the BLE stack connects, subscribes, writes and answers a read
Answers(b) == b.fault = "none" /\ b.disconnect = "ok"

EmptyRead(b) == Answers(b) /\ b.resp = <<>>

NonEmptyRead(b) == Answers(b) /\ b.resp # <<>>

\* the operation of facade d has returned or raised
Completed(d) == pc[d] = "done" /\ op[d] \in MutatingOps \cup ReadOps

\* the BLE stack's behaviour in the last attempt that was made
LastAttempt(d) == plan[d][Len(plan[d])]

\* C1: when connect fails with a link error on the first k < retry_count
\* attempts and attempt k+1 connects and answers with first byte 1, attempt
\* k+1 is made, the mutating operation returns true and disconnect was
\* called k+1 times.
C1_RetryOnLinkFailure ==
    \A k \in 0..MaxRetry :
        ( /\ Completed(1)
          /\ op[1] \in MutatingOps
          /\ k < retry_count[1]
          /\ Len(plan[1]) >= k
          /\ \A i \in 1..k : ConnectLinkFailure(plan[1][i]) )
        => /\ Len(plan[1]) > k
           /\ (NonEmptyRead(plan[1][k + 1]) /\ plan[1][k + 1].resp[1] = 1)
                  => /\ outcome[1] = Returned("True")
                     /\ disc_calls[1] = k + 1

\* attempts of the running operation that are over
AttemptsOver(d) ==
    IF pc[d] \in TryPcs \cup {"disconnect"} THEN Len(plan[d]) - 1 ELSE Len(plan[d])

\* C2: in every state, each attempt of _sendcommand that is over (whether
\* connect, subscribe, write or read failed with a link error or any other
\* error, or none failed) has called disconnect: the calls of disconnect
\* equal the attempts that are over, and no connect is left without one.
C2_NoLeakedConnection ==
    \A d \in Facades :
        /\ disc_calls[d] = AttemptsOver(d)
        /\ pc[d] \in {"idle", "done"} => conn_calls[d] <= disc_calls[d]

\* C2 witness: subscribe failed with an error that is not a link error, the
\* operation raised it, and disconnect had been called
C2_Witness ==
    /\ Completed(1)
    /\ plan[1][1].fault = "subscribe"
    /\ outcome[1] = Raised("TimeoutError")
    /\ conn_calls[1] = 1
    /\ disc_calls[1] = 1

\* a transaction of facade d is between its connect and its disconnect
InRadioPhase(d) == pc[d] \in {"subscribe", "write", "read", "disconnect"}

\* the transactions and scans that are in their radio phase
RadioUsers ==
    Cardinality({d \in Facades : InRadioPhase(d)})
        + (IF scan_pc \in ScanPcs THEN 1 ELSE 0)

\* C3: at most one of the transactions between connect and disconnect and
\* the scans between start and stop is in progress at any time.
C3_AdapterExclusivity == RadioUsers <= 1

\* C4: when the first k attempts (1 <= k <= retry_count) each read an empty
\* response and attempt k+1 reads a non-empty one, attempt k+1 is made, the
\* same command bytes were written in each of the k+1 attempts and
\* _sendcommand returns the response of attempt k+1.
C4_RetryOnEmptyResponse ==
    \A k \in 1..MaxRetry :
        ( /\ Completed(1)
          /\ k <= retry_count[1]
          /\ Len(plan[1]) >= k
          /\ \A i \in 1..k : EmptyRead(plan[1][i]) )
        => /\ Len(plan[1]) > k
           /\ NonEmptyRead(plan[1][k + 1])
                  => /\ send_result[1] = BytesValue(plan[1][k + 1].resp)
                     /\ Len(writes[1]) = k + 1
                     /\ \A i \in 1..(k + 1) : writes[1][i] = writes[1][1]

\* C5: when every attempt read an empty response, _sendcommand returned the
\* empty bytes and the mutating operation returned false.
C5_SoftFailure ==
    ( /\ Completed(1)
      /\ op[1] \in MutatingOps
      /\ \A i \in 1..Len(plan[1]) : EmptyRead(plan[1][i]) )
    => /\ send_result[1] = BytesValue(<<>>)
       /\ outcome[1] = Returned("False")

\* C6: a mutating operation whose transaction read a non-empty response
\* returns true when the first byte is 1 and false when it is neither 1
\* nor 5.
C6_StatusByte ==
    ( /\ Completed(1)
      /\ op[1] \in MutatingOps
      /\ NonEmptyRead(LastAttempt(1)) )
    => /\ LastAttempt(1).resp[1] = 1 => outcome[1] = Returned("True")
       /\ LastAttempt(1).resp[1] \notin {1, 5} => outcome[1] = Returned("False")

\* C7: a mutating operation whose transaction read a response with first
\* byte 5 returns true, whichever of the nine operations it is.
C7_CaveatIsSuccess ==
    ( /\ Completed(1)
      /\ op[1] \in MutatingOps
      /\ NonEmptyRead(LastAttempt(1))
      /\ LastAttempt(1).resp[1] = 5 )
    => outcome[1] = Returned("True")

\* C8: a read operation whose transaction got an answer returns and does not
\* raise, and it returns None when the answer is empty, 0x07 or 0x00.
C8_ReadsNeverThrow ==
    ( /\ Completed(1)
      /\ op[1] \in ReadOps
      /\ Answers(LastAttempt(1)) )
    => /\ outcome[1].kind = "return"
       /\ LastAttempt(1).resp \in {<<>>, <<7>>, <<0>>} => outcome[1] = Returned("None")

IsLowerHexDigit(c) == \E i \in 1..16 : c = LowerHexDigits[i]

\* C9: with a password configured, _commandkey(key) is "571", the key's
\* character at index 3, exactly 8 lower-case hex digits and the key from
\* index 4 on: len(key) + 8 characters, an even number.
C9_PasswordWrappingShape ==
    \A d \in Facades :
        (wrapped[d].called /\ ~password_encoded[d].none)
        => LET k == key[d]
               w == wrapped[d].out
           IN  /\ Len(w) = Len(k) + 8
               /\ Len(w) % 2 = 0
               /\ SubSeq(w, 1, 3) = KEY_PASSWORD_PREFIX
               /\ w[4] = k[4]
               /\ \A i \in 5..12 : IsLowerHexDigit(w[i])
               /\ SubSeq(w, 13, Len(w)) = SubSeq(k, 5, Len(k))

\* position clamped to 0..100
Clamp(position) ==
    IF position < 0 THEN 0 ELSE IF position > 100 THEN 100 ELSE position

\* C10: the key set_position sends is the position prefix and exactly two
\* hex digits, whose value is the position clamped to 0..100 (reversed when
\* reverse_mode is set).
C10_SetPositionClamps ==
    (op[1] = "set_position" /\ pc[1] # "idle")
    => LET k == key[1]
           n == Len(POSITION_KEY)
           expected == IF reverse[1] THEN 100 - Clamp(arg[1]) ELSE Clamp(arg[1])
       IN  /\ Len(k) = n + 2
           /\ SubSeq(k, 1, n) = POSITION_KEY
           /\ IsHexDigit(k[n + 1]) /\ IsHexDigit(k[n + 2])
           /\ 16 * HexValue(k[n + 1]) + HexValue(k[n + 2]) \in 0..100
           /\ 16 * HexValue(k[n + 1]) + HexValue(k[n + 2]) = expected

\* C11: a cached accessor that has returned made no call of the BLE stack
\* (no connect, write or read step, no disconnect, no scan, no advertisement
\* taken in), and with the cache empty, as it is from construction until an
\* update() fills it, it returned None.
C11_AccessorsReadTheCache ==
    \A d \in Facades :
        acc[d].kind # "none"
        => /\ conn_calls[d] = 0 /\ disc_calls[d] = 0
           /\ writes[d] = <<>> /\ steps[d] = <<>> /\ plan[d] = <<>>
           /\ scan_pc = "idle" /\ sd_data = EmptyDict
           /\ switchbot_device_data[d] = <<>> => acc[d] = Returned(PyNone)

\* C11 witness: is_on of a Bot with inverse_mode set returned None
C11_Witness ==
    /\ pc[1] = "done"
    /\ op[1] = "is_on"
    /\ inverse_mode[1]
    /\ switchbot_device_data[1] = <<>>
    /\ acc[1] = Returned(PyNone)

RECURSIVE Aggregated(_, _)
\* the dict detection_callback builds of the advertisements adverts
Aggregated(dict, adverts) ==
    IF adverts = <<>> THEN dict
    ELSE Aggregated(detection_callback(dict, Head(adverts).address, 0 - 60,
                                       Head(adverts).service_data).data,
                    Tail(adverts))

\* the address of facade d was advertised while its update() ran
Advertised(d) == \E i \in 1..Len(air[d]) : air[d][i].address = Mac(d)

\* C12: when update() is over on a facade whose address was advertised
\* during the call, update() returned and the cache is the entry decoded
\* from the last advertisement of that address.
C12_UpdateRefreshesCache ==
    \A d \in Facades :
        (pc[d] = "done" /\ op[d] = "update" /\ Advertised(d))
        => /\ outcome[d].kind = "return"
           /\ switchbot_device_data[d]
                  = Aggregated(EmptyDict, air[d])[StripColons(Mac(d))]

\* the observed addresses whose entry has the model letter of code point m
ObservedOfModel(m) ==
    [k \in DeviceKeys |->
        IF sd_data[k] = <<>> THEN <<>>
        ELSE IF sd_data[k][1].model = m THEN sd_data[k] ELSE <<>>]

\* C13: a query made after the advertisements delivered so far answers from
\* the entries detection_callback keeps: get_device_data gives the entry of
\* an observed address and an empty result for one not observed, and
\* get_bots, get_curtains and get_tempsensors give exactly the observed
\* addresses of their model.
C13_AggregatorQueries ==
    /\ lookup.op = "get_device_data"
           => lookup.found = sd_data[StripColons(lookup.mac)]
    /\ lookup.op = "get_bots" => lookup.devices = ObservedOfModel(72)
    /\ lookup.op = "get_curtains" => lookup.devices = ObservedOfModel(99)
    /\ lookup.op = "get_tempsensors" => lookup.devices = ObservedOfModel(84)

\* the payload is shorter than its family needs: Bot ("H", 72) and Curtain
\* ("c", 99) five bytes, SensorTH ("T", 84) six
ShortOfFamily(service_data) ==
    /\ service_data # <<>>
    /\ \/ service_data[1] % 128 \in {72, 99} /\ Len(service_data) < 5
       \/ service_data[1] % 128 = 84 /\ Len(service_data) < 6

\* C14: no error leaves detection_callback from a decoder, and an entry
\* whose payload is shorter than its family needs has no family name and no
\* decoded fields.
C14_ShortPayloadsRejected ==
    /\ cb_error.at \notin {"_process_wohand", "_process_wocurtain",
                           "_process_wosensorth"}
    /\ \A k \in DeviceKeys :
           (sd_data[k] # <<>> /\ ShortOfFamily(sd_data[k][1].service_data))
           => /\ "modelName" \notin DOMAIN sd_data[k][1]
              /\ DOMAIN sd_data[k][1].data = {"rssi"}

\* C15: the entry of a Bot advertisement with bytes 1 and 2 is named WoHand;
\* its switchMode is bit 7 of byte 1 (byte 1 is 128 or more); with switchMode
\* false isOn is false; with switchMode true isOn is true exactly when bit 6
\* is clear (byte 1 below 192); battery is byte 2 without its bit 7.  The
\* entry of 0x48 0xC0 0x32 0x00 0x00 has switchMode true, isOn false,
\* battery 50.
C15_BotDecode ==
    \A k \in DeviceKeys :
        (sd_data[k] # <<>> /\ sd_data[k][1].model = 72
                           /\ Len(sd_data[k][1].service_data) >= 3)
        => LET e == sd_data[k][1]
               b1 == e.service_data[2]
               b2 == e.service_data[3]
           IN  /\ "modelName" \in DOMAIN e
               /\ e.modelName = "WoHand"
               /\ DOMAIN e.data = {"switchMode", "isOn", "battery"}
               /\ e.data.switchMode <=> b1 >= 128
               /\ ~e.data.switchMode => ~e.data.isOn
               /\ e.data.switchMode => (e.data.isOn <=> b1 < 192)
               /\ e.data.battery = (IF b2 >= 128 THEN b2 - 128 ELSE b2)
               /\ e.service_data = <<72, 192, 50, 0, 0>>
                      => e.data = [switchMode |-> TRUE, isOn |-> FALSE,
                                   battery |-> 50]

\* C15 witness: the entries of 0x48 0xC0 0x32 0x00 0x00 and of a Bot in
\* press mode with bit 6 clear
C15_Witness ==
    /\ sd_data[StripColons(Mac(1))] # <<>>
    /\ sd_data[StripColons(Mac(1))][1].service_data = <<72, 192, 50, 0, 0>>
    /\ sd_data[StripColons(Mac(1))][1].data.battery = 50
    /\ sd_data[StripColons(Mac(2))] # <<>>
    /\ sd_data[StripColons(Mac(2))][1].service_data = <<72, 0, 50>>
    /\ ~sd_data[StripColons(Mac(2))][1].data.isOn

\* C16: the position _process_wocurtain decodes is in 0..100; a raw value
\* (bits 0-6 of byte 3) of 100 or more gives 100 without reversal and 0 with
\* it; and the position with reversal is 100 less the position without.
C16_CurtainPosition ==
    (decoded.fn = "_process_wocurtain" /\ decoded.out.err = "none")
    => LET raw == decoded.data[4] % 128
           position == decoded.out.rec.position
       IN  /\ position \in 0..100
           /\ raw >= 100 => position = (IF decoded.rev THEN 0 ELSE 100)
           /\ process_wocurtain(decoded.data, TRUE).rec.position
                  = 100 - process_wocurtain(decoded.data, FALSE).rec.position

\* C16 witness: a raw value above 100 decoded with reversal
C16_Witness ==
    /\ decoded.fn = "_process_wocurtain"
    /\ decoded.out.err = "none"
    /\ decoded.data[4] = 255
    /\ decoded.rev
    /\ decoded.out.rec.position = 0

\* C17: the fields _process_wohand and _process_wocurtain decode are in
\* their ranges: battery 0..100, position 0..100, lightLevel 0..15,
\* deviceChain 0..7.
C17_DecodedRanges ==
    /\ (decoded.fn = "_process_wohand" /\ decoded.out.err = "none")
           => decoded.out.rec.battery \in 0..100
    /\ (decoded.fn = "_process_wocurtain" /\ decoded.out.err = "none")
           => /\ decoded.out.rec.battery \in 0..100
              /\ decoded.out.rec.position \in 0..100
              /\ decoded.out.rec.lightLevel \in 0..15
              /\ decoded.out.rec.deviceChain \in 0..7

\* the two lower-case hex digits of a byte
TwoHexDigits(n) == <<LowerHexDigits[(n \div 16) + 1], LowerHexDigits[(n % 16) + 1]>>

\* C18: the key of set_switch_mode is the set-mode prefix, two hex digits of
\* strength modulo 256 and the two mode digits; the key of set_long_press is
\* the set-extended prefix, "08" and two hex digits of duration modulo 256.
C18_ByteParameters ==
    \A d \in Facades :
        /\ (op[d] = "set_switch_mode" /\ pc[d] # "idle")
               => LET n == Len(DEVICE_SET_MODE_KEY)
                  IN  /\ Len(key[d]) = n + 4
                      /\ SubSeq(key[d], n + 1, n + 2) = TwoHexDigits(arg[d] % 256)
        /\ (op[d] = "set_long_press" /\ pc[d] # "idle")
               => key[d] = DEVICE_SET_EXTENDED_KEY \o <<"0", "8">>
                               \o TwoHexDigits(arg[d] % 256)

\* C19: in the calls the try block of one attempt has awaited, _writekey
\* comes third, after a _connect and a _subscribe that ended without error;
\* _readkey comes right after a _writekey that ended without error; and
\* after a _connect or _subscribe that ended with an error no call follows.
C19_StepOrdering ==
    \A d \in Facades :
        \A i \in 1..Len(steps[d]) :
            /\ steps[d][i].call = "write"
                   => /\ i = 3
                      /\ steps[d][1] = [call |-> "connect", result |-> "ok"]
                      /\ steps[d][2] = [call |-> "subscribe", result |-> "ok"]
            /\ steps[d][i].call = "read"
                   => /\ i > 1
                      /\ steps[d][i - 1] = [call |-> "write", result |-> "ok"]
            /\ (steps[d][i].call \in {"connect", "subscribe"}
                    /\ steps[d][i].result # "ok")
                   => i = Len(steps[d])

\* C19 witness: _writekey was called after _connect and _subscribe, and the
\* operation is over
C19_Witness ==
    /\ Completed(1)
    /\ Len(steps[1]) = 3
    /\ steps[1][3].call = "write"

\* C20: when the first attempt is answered with the single byte 0x07 or
\* 0x09 and retry_count is 1 or more, a second attempt is made and writes
\* the same command bytes.
C20_PasswordErrorsRetried ==
    ( /\ Completed(1)
      /\ retry_count[1] >= 1
      /\ Answers(plan[1][1])
      /\ plan[1][1].resp \in {<<7>>, <<9>>} )
    => /\ Len(plan[1]) >= 2
       /\ Len(writes[1]) >= 2
       /\ writes[1][2] = writes[1][1]

\* a call of _sendcommand of facade d is running
Running(d) == pc[d] \in TryPcs \cup {"disconnect"}

\* C21: one facade call makes at most retry_count + 1 attempts and calls of
\* connect, and a call that is running comes to its end: the operation
\* returns or raises.
C21_BoundedAttempts ==
    /\ [](\A d \in Facades :
              /\ conn_calls[d] <= retry_count[d] + 1
              /\ Len(plan[d]) <= retry_count[d] + 1)
    /\ \A d \in Facades : Running(d) ~> (pc[d] = "done" /\ outcome[d].kind # "none")

\* C21 witness: with retry_count 0 connect failed with a link error and the
\* operation is over after one call of connect
C21_Witness ==
    /\ Completed(1)
    /\ retry_count[1] = 0
    /\ ConnectLinkFailure(plan[1][1])
    /\ conn_calls[1] = 1
    /\ outcome[1].kind # "none"

\* a mutating or read operation of facade d is running or just over
InCommand(d) == op[d] \in MutatingOps \cup ReadOps

\* C22: no step that begins, continues or ends a mutating or a read
\* operation of a facade changes the cache of that facade, whether the
\* operation returns true or false or raises.
C22_CommandsKeepCache ==
    [][\A d \in Facades :
           (InCommand(d) \/ op'[d] \in MutatingOps \cup ReadOps)
           => switchbot_device_data'[d] = switchbot_device_data[d]]_vars

\* C22 witness: set_position returned False after connect failed with a link
\* error, and the cache is as it was constructed
C22_Witness ==
    /\ Completed(1)
    /\ op[1] = "set_position"
    /\ outcome[1] = Returned("False")
    /\ switchbot_device_data[1] = <<>>

\* the raw position byte in the key set_position passed to _sendcommand
SentPosition(d) ==
    LET n == Len(POSITION_KEY)
    IN  16 * HexValue(key[d][n + 1]) + HexValue(key[d][n + 2])

\* the entry detection_callback makes of a Curtain advertisement of the
\* address of facade d whose raw position is v
EntryOfPosition(d, v) ==
    detection_callback(EmptyDict, Mac(d), 0 - 60, <<99, 0, 50, v, 0>>)
        .data[StripColons(Mac(d))][1]

\* C23: when set_position(p) with p in 0..100 passed the raw position v to
\* _sendcommand, the entry decoded from an advertisement of the facade's
\* address with raw position v has position p, for either reverse_mode.
C23_PositionRoundTrip ==
    \A d \in Facades :
        (op[d] = "set_position" /\ pc[d] # "idle" /\ arg[d] \in 0..100)
        => EntryOfPosition(d, SentPosition(d)).data.position = arg[d]

\* C24: when get_extended_info_summary is over and the device answered its
\* request with a response of first byte 1 and at least three bytes, the
\* operation returned self.ext_info_sum, and that record has the key
\* "device1" exactly when byte 2 of this response is not 0.
C24_SummaryOfLatestResponse ==
    ( /\ Completed(1)
      /\ op[1] = "get_extended_info_summary"
      /\ Answers(plan[1][1])
      /\ Len(plan[1][1].resp) >= 3
      /\ plan[1][1].resp[1] = 1 )
    => /\ outcome[1] = Returned("ext_info_sum")
       /\ ext_info_sum[1].device0 # <<>>
       /\ ext_info_sum[1].device1 # <<>> <=> plan[1][1].resp[3] # 0

====
